---- MODULE Spec2Model ----
(***************************************************************************)
(* Condair cloud client (custom_components/condair/api.py), the            *)
(* integration's entry lifecycle (custom_components/condair/__init__.py),  *)
(* the setup of its sensor platform (sensor.py, SpecSensor) and the        *)
(* humidifier entity of one device (humidifier.py, SpecHumidifier).        *)
(*                                                                         *)
(* Every client coroutine is one action: the action runs the coroutine     *)
(* from its call to its return (or to the exception it lets escape), the   *)
(* remote service's answers to the requests it sends being inputs of the   *)
(* action; close_session alone is also modelled in two steps, around its   *)
(* await, so that other calls can overlap it (SpecClose).  Python values   *)
(* are modelled as follows:                                                *)
(*   None            the string None                                       *)
(*   a missing key   the string Absent                                     *)
(*   bool result     "True" / "False"                                      *)
(*   an exception    its class name as the result of the call              *)
(***************************************************************************)
EXTENDS Integers, Sequences, FiniteSets, TLC

VARIABLES
    access_token,       \* CondairApi._access_token
    refresh_token,      \* CondairApi._refresh_token
    token_expires_at,   \* CondairApi._token_expires_at
    username,           \* CondairApi._username
    password,           \* CondairApi._password
    session,            \* CondairApi._session: 0 is None, else an index of sessions
    sessions,           \* every ClientSession created: number of close() calls on it
    now,                \* time.time()
    entry,              \* the config entry: "new", "setup_failed", "loaded", "unloaded"
    registered,         \* whether hass.data[DOMAIN] holds the entry's api
    closing,            \* the session a suspended close_session is closing, else 0
    sensor_entities,    \* the entities the sensor platform handed to async_add_entities
    humidifier,         \* the fields of the CondairHumidifierEntity of device "A1"
    scenario,           \* history: how far the entity is in set_humidity, turn_off, polls
    last                \* the last completed call: what it was given, sent and returned

vars == <<access_token, refresh_token, token_expires_at, username, password,
          session, sessions, now, entry, registered, closing,
          sensor_entities, humidifier, scenario, last>>

---------------------------------------------------------------------------
(* Bounds of the model *)

MaxTime == 3600
LatStep == 1800
MaxSessions == 2
ShortLife == 60
MaxSetupDevices == 2
CooldownStep == 15
MaxCooldownTime == 45
MaxPolls == 2

(* Program constants *)

ExpiryMargin == 30
DefaultExpiresIn == 3600

None == "<None>"
Absent == "<absent>"

\* endpoints, relative to the base URL
SignInEndpoint == "userapi/users/signin"
RefreshEndpoint == "userapi/users/refresh"
DevicesEndpoint == "api/condair/sensor-instances?pageSize=999"
DatapointsEndpoint == "api/condair/sensor-instances/{unique_id}/latest-datapoint-values"
ActionsEndpoint == "api/condair/sensor-instances/{unique_id}/actions"
InvokeEndpoint == "api/condair/invoke-action"
ParentsEndpoint == "/api/condair/sensor-instances?pageSize=999"

\* Python truthiness of a str | None
Truthy(v) == v \notin {None, Absent, ""}

---------------------------------------------------------------------------
(* What the remote service may answer *)

\* an answer arrives at once or after LatStep seconds (the answers that
\* carry no data are modelled as arriving at once)
Lat == {0, LatStep}

\* the expires_in member of a token response, by JSON type
ExpInAbsent == [t |-> "absent", s |-> "", n |-> 0]
ExpInValues ==
    { ExpInAbsent,
      [t |-> "int", s |-> "", n |-> ShortLife],
      [t |-> "str", s |-> "60", n |-> 0],
      [t |-> "str", s |-> "soon", n |-> 0],
      [t |-> "null", s |-> "", n |-> 0] }

Users == {"u1", "u2"}
Passwords == {"p1"}

\* kind: how the HTTP exchange ended
\*   "client_error"  no response (aiohttp.ClientConnectionError)
\*   "http_error"    non-2xx status (raise_for_status: ClientResponseError)
\*   "non_json"      2xx, Content-Type other than application/json
\*   "json_list"     2xx, JSON array
\*   "json_dict"     2xx, JSON object with the members below
TokenBody(k, e, a, r, x) ==
    [kind |-> k, error |-> e, access_token |-> a, refresh_token |-> r,
     expires_in |-> x, lat |-> 0]

EmptyDict == TokenBody("json_dict", FALSE, Absent, Absent, ExpInAbsent)
NoResponse == TokenBody("none", FALSE, Absent, Absent, ExpInAbsent)

TokenBodies ==
    { TokenBody(k, FALSE, Absent, Absent, ExpInAbsent) :
        k \in {"client_error", "http_error", "non_json", "json_list"} }
    \cup { TokenBody("json_dict", TRUE, Absent, Absent, ExpInAbsent),
           TokenBody("json_dict", TRUE, "a1", "r1", ExpInAbsent) }
    \cup { TokenBody("json_dict", FALSE, a, "r1", ExpInAbsent) : a \in {Absent, "", "a1"} }
    \cup { TokenBody("json_dict", FALSE, "a1", Absent, ExpInAbsent),
           TokenBody("json_dict", FALSE, "a2", "r2", ExpInAbsent) }
    \cup { TokenBody("json_dict", FALSE, "a1", "r1", x) : x \in ExpInValues }

TokenResponses == { [b EXCEPT !.lat = l] : b \in TokenBodies, l \in Lat }

---------------------------------------------------------------------------
(* The client as a value: c is the record of the object's fields, the      *)
(* sessions it created, the clock and the requests sent by the running     *)
(* call.  Each method maps c and the service's answers to [c, ret].        *)

Client ==
    [access_token |-> access_token, refresh_token |-> refresh_token,
     token_expires_at |-> token_expires_at, username |-> username,
     password |-> password, session |-> session, sessions |-> sessions,
     now |-> now, reqs |-> <<>>, calls |-> <<>>]

\* __init__
NewClient(ss, t) ==
    [access_token |-> None, refresh_token |-> None, token_expires_at |-> 0,
     username |-> None, password |-> None, session |-> 0, sessions |-> ss,
     now |-> t, reqs |-> <<>>, calls |-> <<>>]

\* v, evaluated once, given to F
Bind(v, F(_)) == CHOOSE r \in { F(x) : x \in {v} } : TRUE

Returned(c, op, ret) ==
    [c |-> [c EXCEPT !.calls = Append(@, [op |-> op, ret |-> ret])], ret |-> ret]

IsOpen(ss, i) == i \in 1..Len(ss) /\ ss[i] = 0

\* _ensure_session opening a session for every request
ensure_session_always_new(c) ==
    [c EXCEPT !.sessions = Append(@, 0), !.session = Len(c.sessions) + 1]

\* _ensure_session
ensure_session(c) ==
    IF c.session = 0 \/ ~IsOpen(c.sessions, c.session)
    THEN [c EXCEPT !.sessions = Append(@, 0), !.session = Len(c.sessions) + 1]
    ELSE c

\* _get_auth_header: the bearer token sent, "" when the header is left out
get_auth_header(c) == IF Truthy(c.access_token) THEN c.access_token ELSE ""

\* session.get / session.post inside _get_request / _post_request: the request
\* goes out on the ensured session with the auth header of that moment (valid:
\* a token is held and has not expired), and is answered by resp after resp.lat
send(c, method, ep, body, resp) ==
    Bind(ensure_session(c), LAMBDA c1 :
        [c1 EXCEPT !.reqs = Append(@, [method |-> method, ep |-> ep, body |-> body,
                                       auth |-> get_auth_header(c1),
                                       valid |-> Truthy(c1.access_token)
                                                 /\ c1.now < c1.token_expires_at,
                                       session |-> c1.session,
                                       resp |-> resp]),
                   !.now = @ + resp.lat])

RaisedBy(kind) ==
    CASE kind = "client_error" -> "ClientConnectionError"
      [] kind = "http_error" -> "ClientResponseError"
      [] OTHER -> ""

\* except aiohttp.ClientError (ClientResponseError is a subclass of it)
IsClientError(exc) == exc \in {"ClientConnectionError", "ClientResponseError"}

\* _post_request with a token-endpoint answer
post_request(c, ep, body, resp) ==
    [c |-> send(c, "POST", ep, body, resp),
     exc |-> RaisedBy(resp.kind),
     val |-> IF resp.kind = "non_json" THEN EmptyDict ELSE resp]

\* int(s) for the strings the service sends: -1 stands for ValueError
IntOfStr(s) ==
    CASE s = "60" -> 60
      [] s = "3600" -> 3600
      [] OTHER -> -1

\* expires_in_str = resp.get("expires_in", "3600"); int(expires_in_str) under
\* "except ValueError": [exc, n]
expires_in_of(x) ==
    CASE x.t = "absent" -> [exc |-> "", n |-> IntOfStr("3600")]
      [] x.t = "int" -> [exc |-> "", n |-> x.n]
      [] x.t = "str" -> [exc |-> "", n |-> IF IntOfStr(x.s) < 0 THEN DefaultExpiresIn ELSE IntOfStr(x.s)]
      [] OTHER -> [exc |-> "TypeError", n |-> 0]

\* resp.get(key): None for a missing key
DictGet(v) == IF v = Absent THEN None ELSE v

\* authenticate without its check of the error member
authenticate_ignores_error(c, u, p, resp) ==
    Bind(post_request(c, SignInEndpoint, <<u, p>>, resp), LAMBDA pr :
    LET r == pr.val
        isdict == r.kind = "json_dict"
        c2 == [pr.c EXCEPT !.access_token = r.access_token,
                           !.refresh_token = r.refresh_token,
                           !.username = u, !.password = p]
        ei == expires_in_of(r.expires_in)
    IN  IF IsClientError(pr.exc) THEN Returned(pr.c, "authenticate", "False")
        ELSE IF ~isdict \/ r.access_token = Absent \/ r.refresh_token = Absent
             THEN Returned(pr.c, "authenticate", "False")
        ELSE IF ei.exc # "" THEN Returned(c2, "authenticate", ei.exc)
        ELSE Returned([c2 EXCEPT !.token_expires_at = pr.c.now + ei.n - ExpiryMargin],
                      "authenticate", "True"))

\* authenticate keeping the credentials it was given even when it fails
authenticate_keeps_credentials(c, u, p, resp) ==
    Bind(post_request(c, SignInEndpoint, <<u, p>>, resp), LAMBDA pr :
    LET r == pr.val
        isdict == r.kind = "json_dict"
        c0 == [pr.c EXCEPT !.username = u, !.password = p]
        c2 == [c0 EXCEPT !.access_token = r.access_token,
                         !.refresh_token = r.refresh_token]
        ei == expires_in_of(r.expires_in)
    IN  IF IsClientError(pr.exc) THEN Returned(c0, "authenticate", "False")
        ELSE IF isdict /\ r.error THEN Returned(c0, "authenticate", "False")
        ELSE IF ~isdict \/ r.access_token = Absent \/ r.refresh_token = Absent
             THEN Returned(c0, "authenticate", "False")
        ELSE IF ei.exc # "" THEN Returned(c2, "authenticate", ei.exc)
        ELSE Returned([c2 EXCEPT !.token_expires_at = pr.c.now + ei.n - ExpiryMargin],
                      "authenticate", "True"))

\* authenticate
authenticate(c, u, p, resp) ==
    Bind(post_request(c, SignInEndpoint, <<u, p>>, resp), LAMBDA pr :
    LET r == pr.val
        isdict == r.kind = "json_dict"
        c2 == [pr.c EXCEPT !.access_token = r.access_token,
                           !.refresh_token = r.refresh_token,
                           !.username = u, !.password = p]
        ei == expires_in_of(r.expires_in)
    IN  IF IsClientError(pr.exc) THEN Returned(pr.c, "authenticate", "False")
        ELSE IF isdict /\ r.error THEN Returned(pr.c, "authenticate", "False")
        ELSE IF ~isdict \/ r.access_token = Absent \/ r.refresh_token = Absent
             THEN Returned(pr.c, "authenticate", "False")
        ELSE IF ei.exc # "" THEN Returned(c2, "authenticate", ei.exc)
        ELSE Returned([c2 EXCEPT !.token_expires_at = pr.c.now + ei.n - ExpiryMargin],
                      "authenticate", "True"))

\* whether refresh_access_token, given rr, goes on to re-authenticate
FallsBack(c, rr) ==
    /\ Truthy(c.refresh_token)
    /\ rr.kind = "json_dict" /\ rr.error
    /\ Truthy(c.username) /\ Truthy(c.password)

\* refresh_access_token awaiting the re-authentication without returning its result
refresh_access_token_drops_result(c, rr, ar) ==
    IF ~Truthy(c.refresh_token) THEN Returned(c, "refresh_access_token", "False")
    ELSE
    Bind(post_request(c, RefreshEndpoint, <<c.refresh_token>>, rr), LAMBDA pr :
    LET r == pr.val
        c1 == pr.c
        c2 == [c1 EXCEPT !.access_token = DictGet(r.access_token),
                         !.refresh_token = DictGet(r.refresh_token)]
        ei == expires_in_of(r.expires_in)
    IN  IF IsClientError(pr.exc) THEN Returned(c1, "refresh_access_token", "False")
        ELSE IF r.kind = "json_dict" /\ r.error
             THEN IF Truthy(c1.username) /\ Truthy(c1.password)
                  THEN Bind(authenticate(c1, c1.username, c1.password, ar), LAMBDA inner :
                            Returned(inner.c, "refresh_access_token", "False"))
                  ELSE Returned(c1, "refresh_access_token", "False")
        ELSE IF r.kind # "json_dict"
             THEN Returned(c1, "refresh_access_token", "AttributeError")
        ELSE IF ei.exc # "" THEN Returned(c2, "refresh_access_token", ei.exc)
        ELSE Returned([c2 EXCEPT !.token_expires_at = c1.now + ei.n - ExpiryMargin],
                      "refresh_access_token", "True"))

\* refresh_access_token: rr answers the refresh, ar the re-authentication
refresh_access_token(c, rr, ar) ==
    IF ~Truthy(c.refresh_token) THEN Returned(c, "refresh_access_token", "False")
    ELSE
    Bind(post_request(c, RefreshEndpoint, <<c.refresh_token>>, rr), LAMBDA pr :
    LET r == pr.val
        c1 == pr.c
        c2 == [c1 EXCEPT !.access_token = DictGet(r.access_token),
                         !.refresh_token = DictGet(r.refresh_token)]
        ei == expires_in_of(r.expires_in)
    IN  IF IsClientError(pr.exc) THEN Returned(c1, "refresh_access_token", "False")
        ELSE IF r.kind = "json_dict" /\ r.error
             THEN IF Truthy(c1.username) /\ Truthy(c1.password)
                  THEN Bind(authenticate(c1, c1.username, c1.password, ar), LAMBDA inner :
                            Returned(inner.c, "refresh_access_token", inner.ret))
                  ELSE Returned(c1, "refresh_access_token", "False")
        ELSE IF r.kind # "json_dict"
             THEN Returned(c1, "refresh_access_token", "AttributeError")
        ELSE IF ei.exc # "" THEN Returned(c2, "refresh_access_token", ei.exc)
        ELSE Returned([c2 EXCEPT !.token_expires_at = c1.now + ei.n - ExpiryMargin],
                      "refresh_access_token", "True"))

\* maybe_refresh_token with the expiry comparison inverted
maybe_refresh_token_inverted(c, rr, ar) ==
    IF ~Truthy(c.access_token) THEN Returned(c, "maybe_refresh_token", "False")
    ELSE IF c.now < c.token_expires_at
         THEN Bind(refresh_access_token(c, rr, ar), LAMBDA inner :
                   Returned(inner.c, "maybe_refresh_token", inner.ret))
    ELSE Returned(c, "maybe_refresh_token", "True")

\* maybe_refresh_token without its check of the access token
maybe_refresh_token_unguarded(c, rr, ar) ==
    IF c.now >= c.token_expires_at
    THEN Bind(refresh_access_token(c, rr, ar), LAMBDA inner :
              Returned(inner.c, "maybe_refresh_token", inner.ret))
    ELSE Returned(c, "maybe_refresh_token", "True")

\* maybe_refresh_token
maybe_refresh_token(c, rr, ar) ==
    IF ~Truthy(c.access_token) THEN Returned(c, "maybe_refresh_token", "False")
    ELSE IF c.now >= c.token_expires_at
         THEN Bind(refresh_access_token(c, rr, ar), LAMBDA inner :
                   Returned(inner.c, "maybe_refresh_token", inner.ret))
    ELSE Returned(c, "maybe_refresh_token", "True")

\* the answers a refresh_access_token call at c consumes
RefreshScripts(c) ==
    IF ~Truthy(c.refresh_token) THEN {<<NoResponse, NoResponse>>}
    ELSE UNION { { <<rr, ar>> :
                     ar \in IF FallsBack(c, rr) THEN TokenResponses ELSE {NoResponse} } :
                 rr \in TokenResponses }

\* the answers a maybe_refresh_token call at c consumes
TokScripts(c) ==
    IF Truthy(c.access_token) /\ c.now >= c.token_expires_at
    THEN RefreshScripts(c)
    ELSE {<<NoResponse, NoResponse>>}

---------------------------------------------------------------------------
(* Device data and actions *)

\* an answer of a data endpoint: a JSON array is its items; a JSON object
\* may have an error member and a data member (whose value is items)
DataBody(k, e, h, items) ==
    [kind |-> k, error |-> e, has_data |-> h, items |-> items, lat |-> 0]

NoData == DataBody("none", FALSE, FALSE, <<>>)

FailureBodies ==
    { DataBody(k, FALSE, FALSE, <<>>) : k \in {"client_error", "http_error", "non_json"} }

WithLat(bodies) == { [b EXCEPT !.lat = l] : b \in bodies, l \in Lat }

DeviceIds == {"A1"}
EntityId == "A1"

Device(uid, name, serial, pname) ==
    [uniqueId |-> uid, instanceName |-> name, parentSerialNumber |-> serial,
     parentInstanceName |-> pname]

DeviceLists ==
    { <<>>,
      <<Device("A1", "Bath", "S1", "Home")>>,
      <<Device("A1", "Bath", "S1", "Home"), Device(Absent, "Hall", "S1", "Flat")>>,
      <<Device("A1", "Bath", "S1", "Home"), Device("A2", "Hall", "S1", "Home")>>,
      <<Device("A1", "Bath", "S1", "Home"), Device("A2", "Hall", "S2", "Flat"),
        Device("A3", "Attic", Absent, Absent), Device("A4", "Cellar", "S1", "Other"),
        Device("A5", "Shed", Absent, "Yard")>> }

DeviceResponses ==
    FailureBodies
    \cup { DataBody("json_dict", FALSE, FALSE, <<>>) }
    \cup { DataBody("json_list", FALSE, FALSE, d) : d \in DeviceLists }
    \cup WithLat({ DataBody("json_dict", FALSE, TRUE, d) : d \in DeviceLists })

\* the value member of a datapoint, by JSON type: a string s, a number
\* (written s), null, an array, or no value member at all
DpValue(t, s) == [t |-> t, s |-> s]
Datapoint(name, v) == [dataPointName |-> name, value |-> v]

DatapointLists ==
    { <<>>,
      <<Datapoint("Humidity Average", DpValue("str", "45.2")),
        Datapoint("Area OnOff", DpValue("str", "1"))>>,
      <<Datapoint("Temperature Average", DpValue("str", "n/a")),
        Datapoint("Humidity Reference", DpValue("str", "0")),
        Datapoint("Area OnOff", DpValue("absent", ""))>>,
      <<Datapoint("Humidity Average", DpValue("str", "45.2")),
        Datapoint("Humidity Average", DpValue("num", "21.5")),
        Datapoint("Humidity Average", DpValue("null", "")),
        Datapoint("humidity average", DpValue("str", "2")),
        Datapoint("Area OnOff", DpValue("str", "2"))>>,
      <<Datapoint("Area OnOff", DpValue("str", "0")),
        Datapoint("Temperature Average", DpValue("str", "21.5")),
        Datapoint("Area OnOff", DpValue("num", "1.0"))>>,
      <<Datapoint("Area OnOff", DpValue("str", "1")),
        Datapoint("Area OnOff", DpValue("str", "on"))>>,
      <<Datapoint("Temperature Average", DpValue("str", "21.5")),
        Datapoint("Humidity Average", DpValue("list", ""))>>,
      <<Datapoint("Area OnOff", DpValue("list", ""))>>,
      <<Datapoint("Temperature Average", DpValue("str", "21.5")),
        Datapoint("Humidity Average", DpValue("str", "45.2")),
        Datapoint("Humidity Reference", DpValue("str", "21.5")),
        Datapoint("Area OnOff", DpValue("str", "1"))>>,
      <<Datapoint("Humidity Reference", DpValue("num", "21.5")),
        Datapoint("Area OnOff", DpValue("str", "0"))>> }

DatapointResponses ==
    FailureBodies
    \cup { DataBody("json_dict", FALSE, FALSE, <<>>) }
    \cup WithLat({ DataBody("json_list", FALSE, FALSE, d) : d \in DatapointLists })

Action(id, name) == [id |-> id, name |-> name]

ActionLists ==
    { <<>>,
      <<Action("7", "Area OnOff")>>,
      <<Action("8", "Humidity Reference")>>,
      <<Action("5", "Area Onoff"), Action("8", "Humidity Reference"),
        Action("7", "Area OnOff"), Action("9", "Area OnOff")>>,
      <<Action("6", Absent), Action("4", "Humidity Reference"),
        Action("8", "Humidity Reference")>> }

ActionResponses ==
    FailureBodies
    \cup { DataBody("json_dict", FALSE, FALSE, <<>>) }
    \cup WithLat({ DataBody("json_list", FALSE, FALSE, a) : a \in ActionLists })

InvokeResponses ==
    FailureBodies
    \cup { DataBody("json_dict", TRUE, FALSE, <<>>),
           DataBody("json_list", FALSE, FALSE, <<>>) }
    \cup WithLat({ DataBody("json_dict", FALSE, FALSE, <<>>) })

HumidityValues == {45}

\* the token answers drawn on inside a device call
DeviceCallTokenResponses ==
    { TokenBody("client_error", FALSE, Absent, Absent, ExpInAbsent),
      TokenBody("json_list", FALSE, Absent, Absent, ExpInAbsent),
      TokenBody("json_dict", TRUE, Absent, Absent, ExpInAbsent),
      TokenBody("json_dict", FALSE, "a1", "r1", ExpInAbsent),
      TokenBody("json_dict", FALSE, "a1", "r1", [t |-> "int", s |-> "", n |-> ShortLife]),
      TokenBody("json_dict", FALSE, "a1", "r1", [t |-> "null", s |-> "", n |-> 0]) }

\* the answers the maybe_refresh_token call of a device call at c consumes
DeviceCallTokScripts(c) ==
    IF Truthy(c.access_token) /\ c.now >= c.token_expires_at /\ Truthy(c.refresh_token)
    THEN UNION { { <<rr, ar>> :
                     ar \in IF FallsBack(c, rr) THEN DeviceCallTokenResponses
                                                ELSE {NoResponse} } :
                 rr \in DeviceCallTokenResponses }
    ELSE {<<NoResponse, NoResponse>>}

IsBool(ret) == ret \in {"True", "False"}

ReturnedVal(c, op, ret, val) ==
    [c |-> [c EXCEPT !.calls = Append(@, [op |-> op, ret |-> ret])],
     ret |-> ret, val |-> val]

\* _get_request: [c, exc, val]; a non-JSON body is returned as {}
get_request(c, ep, resp) ==
    [c |-> send(c, "GET", ep, <<>>, resp),
     exc |-> RaisedBy(resp.kind),
     val |-> IF resp.kind = "non_json" THEN DataBody("json_dict", FALSE, FALSE, <<>>) ELSE resp]

\* _post_request with the invoke-action answer
post_data_request(c, ep, body, resp) ==
    [c |-> send(c, "POST", ep, body, resp),
     exc |-> RaisedBy(resp.kind),
     val |-> IF resp.kind = "non_json" THEN DataBody("json_dict", FALSE, FALSE, <<>>) ELSE resp]

\* get_devices returning a JSON array as it is
get_devices_any_list(c, ts, g) ==
    Bind(maybe_refresh_token(c, ts[1], ts[2]), LAMBDA m :
    IF ~IsBool(m.ret) THEN ReturnedVal(m.c, "get_devices", m.ret, <<>>)
    ELSE
    Bind(get_request(m.c, DevicesEndpoint, g), LAMBDA gr :
    IF gr.exc # "" THEN ReturnedVal(gr.c, "get_devices", gr.exc, <<>>)
    ELSE ReturnedVal(gr.c, "get_devices", "ok", gr.val.items)))

\* get_devices
get_devices(c, ts, g) ==
    Bind(maybe_refresh_token(c, ts[1], ts[2]), LAMBDA m :
    IF ~IsBool(m.ret) THEN ReturnedVal(m.c, "get_devices", m.ret, <<>>)
    ELSE
    Bind(get_request(m.c, DevicesEndpoint, g), LAMBDA gr :
    IF gr.exc # "" THEN ReturnedVal(gr.c, "get_devices", gr.exc, <<>>)
    ELSE IF gr.val.kind = "json_dict" /\ gr.val.has_data
         THEN ReturnedVal(gr.c, "get_devices", "ok", gr.val.items)
    ELSE ReturnedVal(gr.c, "get_devices", "ok", <<>>)))

\* the keys of a JSON object, which "for device in response" runs through
DictKeys(v) ==
    (IF v.error THEN {"error"} ELSE {}) \cup (IF v.has_data THEN {"data"} ELSE {})

ParentEntry(number, name) ==
    [parentInstanceNumber |-> number, parentInstanceName |-> name]

\* the loop of get_parent_instances over a JSON array: parent_instances as the
\* sequence of its values, in insertion order
RECURSIVE group_parents(_, _)
group_parents(parent_instances, devices) ==
    IF devices = <<>> THEN parent_instances
    ELSE LET number == DictGet(Head(devices).parentSerialNumber)
             name == DictGet(Head(devices).parentInstanceName)
         IN  IF \E i \in 1..Len(parent_instances) :
                    parent_instances[i].parentInstanceNumber = number
             THEN group_parents(parent_instances, Tail(devices))
             ELSE group_parents(Append(parent_instances, ParentEntry(number, name)),
                                Tail(devices))

\* get_parent_instances: device.get on a key of a JSON object (a str) raises
\* AttributeError
get_parent_instances(c, g) ==
    Bind(get_request(c, ParentsEndpoint, g), LAMBDA gr :
    IF gr.exc # "" THEN ReturnedVal(gr.c, "get_parent_instances", gr.exc, <<>>)
    ELSE IF gr.val.kind = "json_list"
         THEN ReturnedVal(gr.c, "get_parent_instances", "ok",
                          group_parents(<<>>, gr.val.items))
    ELSE IF DictKeys(gr.val) = {}
         THEN ReturnedVal(gr.c, "get_parent_instances", "ok", <<>>)
    ELSE ReturnedVal(gr.c, "get_parent_instances", "AttributeError", <<>>))

\* float(val_str): the strings the service sends, in tenths
IsFloatStr(s) == s \in {"0", "1", "1.0", "2", "45.2", "21.5"}
FloatOfStr(s) ==
    CASE s = "0" -> 0
      [] s = "1" -> 10
      [] s = "1.0" -> 10
      [] s = "2" -> 20
      [] s = "45.2" -> 452
      [] s = "21.5" -> 215
      [] OTHER -> 0

\* numeric_val of one datapoint: [exc, some, v], some = FALSE for None;
\* float() of an array raises TypeError, which "except ValueError" lets pass
numeric_val(dp) ==
    IF dp.value.t \in {"str", "num"} /\ IsFloatStr(dp.value.s)
    THEN [exc |-> "", some |-> TRUE, v |-> FloatOfStr(dp.value.s)]
    ELSE IF dp.value.t = "list" THEN [exc |-> "TypeError", some |-> FALSE, v |-> 0]
    ELSE [exc |-> "", some |-> FALSE, v |-> 0]

\* one turn of the loop adding to the humidity already parsed
parse_datapoint_accumulating(parsed, dp) ==
    LET name == dp.dataPointName
        nv == numeric_val(dp)
    IN  IF name = "Humidity Average" /\ nv.some
        THEN ("humidity_avg" :>
                 nv.v + (IF "humidity_avg" \in DOMAIN parsed
                         THEN parsed["humidity_avg"] ELSE 0)) @@ parsed
        ELSE IF name = "Area OnOff"
             THEN ("is_on" :> (nv.some /\ nv.v = 10)) @@ parsed
        ELSE parsed

\* one turn of the loop "for dp in raw_data" on the dict parsed, nv being
\* the turn's numeric_val
parse_datapoint(parsed, dp) ==
    LET name == dp.dataPointName
        nv == numeric_val(dp)
    IN  IF name = "Humidity Average" /\ nv.some THEN ("humidity_avg" :> nv.v) @@ parsed
        ELSE IF name = "Temperature Average" /\ nv.some
             THEN ("temperature_avg" :> nv.v) @@ parsed
        ELSE IF name = "Humidity Reference" /\ nv.some
             THEN ("target_humidity" :> nv.v) @@ parsed
        ELSE IF name = "Area OnOff"
             THEN ("is_on" :> (nv.some /\ nv.v = 10)) @@ parsed
        ELSE parsed

EmptySnapshot == [k \in {} |-> 0]

\* the loop "for dp in raw_data": [exc, parsed], exc the exception that ends it
RECURSIVE parse_datapoints(_, _)
parse_datapoints(parsed, raw) ==
    IF raw = <<>> THEN [exc |-> "", parsed |-> parsed]
    ELSE IF numeric_val(Head(raw)).exc # ""
         THEN [exc |-> numeric_val(Head(raw)).exc, parsed |-> parsed]
    ELSE parse_datapoints(parse_datapoint(parsed, Head(raw)), Tail(raw))

\* get_latest_datapoints
get_latest_datapoints(c, unique_id, ts, g) ==
    Bind(maybe_refresh_token(c, ts[1], ts[2]), LAMBDA m :
    IF ~IsBool(m.ret) THEN ReturnedVal(m.c, "get_latest_datapoints", m.ret, <<>>)
    ELSE
    Bind(get_request(m.c, DatapointsEndpoint, g), LAMBDA gr :
    IF gr.exc # "" THEN ReturnedVal(gr.c, "get_latest_datapoints", gr.exc, <<>>)
    ELSE IF gr.val.kind # "json_list"
         THEN ReturnedVal(gr.c, "get_latest_datapoints", "ok", <<EmptySnapshot>>)
    ELSE Bind(parse_datapoints(EmptySnapshot, gr.val.items), LAMBDA pd :
              IF pd.exc # ""
              THEN ReturnedVal(gr.c, "get_latest_datapoints", pd.exc, <<>>)
              ELSE ReturnedVal(gr.c, "get_latest_datapoints", "ok", <<pd.parsed>>))))

\* get_actions
get_actions(c, unique_id, ts, g) ==
    Bind(maybe_refresh_token(c, ts[1], ts[2]), LAMBDA m :
    IF ~IsBool(m.ret) THEN ReturnedVal(m.c, "get_actions", m.ret, <<>>)
    ELSE
    Bind(get_request(m.c, ActionsEndpoint, g), LAMBDA gr :
    IF gr.exc # "" THEN ReturnedVal(gr.c, "get_actions", gr.exc, <<>>)
    ELSE IF gr.val.kind = "json_list"
         THEN ReturnedVal(gr.c, "get_actions", "ok", gr.val.items)
    ELSE ReturnedVal(gr.c, "get_actions", "ok", <<>>)))

\* invoke_action
invoke_action(c, action_id, unique_id, variable_value, ts, p) ==
    Bind(maybe_refresh_token(c, ts[1], ts[2]), LAMBDA m :
    IF ~IsBool(m.ret) THEN Returned(m.c, "invoke_action", m.ret)
    ELSE
    Bind(post_data_request(m.c, InvokeEndpoint,
                           <<action_id, unique_id, variable_value>>, p), LAMBDA pr :
    IF IsClientError(pr.exc) THEN Returned(pr.c, "invoke_action", "False")
    ELSE IF pr.val.kind = "json_dict" /\ pr.val.error
         THEN Returned(pr.c, "invoke_action", "False")
    ELSE Returned(pr.c, "invoke_action", "True")))

\* next(...) taking the first action that has a name, whatever the name
FirstNamed_any(actions, name, i) ==
    IF \E j \in i..Len(actions) : actions[j].name # Absent
    THEN CHOOSE j \in i..Len(actions) :
            /\ actions[j].name # Absent
            /\ \A k \in i..(j - 1) : actions[k].name = Absent
    ELSE 0

\* next((a for a in actions if a.get("name") == name), None): its index, 0 for None
RECURSIVE FirstNamed(_, _, _)
FirstNamed(actions, name, i) ==
    IF i > Len(actions) THEN 0
    ELSE IF actions[i].name = name THEN i
    ELSE FirstNamed(actions, name, i + 1)

\* the shared body of set_on_off and set_humidity_reference
set_by_action(c, op, name, unique_id, value, ts1, g, ts2, p) ==
    Bind(get_actions(c, unique_id, ts1, g), LAMBDA ga :
    IF ga.ret # "ok" THEN Returned(ga.c, op, ga.ret)
    ELSE
    Bind(FirstNamed(ga.val, name, 1), LAMBDA i :
    IF i = 0 THEN Returned(ga.c, op, "False")
    ELSE Bind(invoke_action(ga.c, ga.val[i].id, unique_id, value, ts2, p), LAMBDA inv :
              Returned(inv.c, op, inv.ret))))

\* set_on_off
set_on_off(c, unique_id, turn_on, ts1, g, ts2, p) ==
    set_by_action(c, "set_on_off", "Area OnOff", unique_id,
                  IF turn_on THEN "1" ELSE "0", ts1, g, ts2, p)

\* str(humidity)
StrOfInt(n) ==
    CASE n = 45 -> "45"
      [] n = 46 -> "46"
      [] OTHER -> "?"

\* set_humidity_reference
set_humidity_reference(c, unique_id, humidity, ts1, g, ts2, p) ==
    set_by_action(c, "set_humidity_reference", "Humidity Reference", unique_id,
                  StrOfInt(humidity), ts1, g, ts2, p)

\* close_session
close_session(c) ==
    IF c.session # 0 /\ IsOpen(c.sessions, c.session)
    THEN [c EXCEPT !.sessions[c.session] = @ + 1, !.session = 0]
    ELSE c

\* close_session up to its suspension in "await self._session.close()": the
\* session tested open is being closed; closed_at_once tells whether
\* session.closed already reads True while close() is suspended (aiohttp
\* marks the connector closed before it awaits) or only when close() is done
close_session_begin(c, closed_at_once) ==
    IF closed_at_once THEN [c EXCEPT !.sessions[c.session] = 1] ELSE c

\* close_session from its resumption: close() is done on session s, and
\* "self._session = None" is run whatever self._session refers to by now
close_session_end(c, s) ==
    [c EXCEPT !.sessions[s] = IF @ = 0 THEN 1 ELSE @, !.session = 0]

---------------------------------------------------------------------------
(* State machine *)

Snapshot(c) ==
    [access_token |-> c.access_token, refresh_token |-> c.refresh_token,
     token_expires_at |-> c.token_expires_at, username |-> c.username,
     password |-> c.password, session |-> c.session, sessions |-> c.sessions,
     now |-> c.now]

\* datetime.min, and a time set by datetime.now()
DatetimeMin == [set |-> FALSE, at |-> 0]
At(t) == [set |-> TRUE, at |-> t]

\* CondairHumidifierEntity.__init__
NewHumidifier ==
    [is_on |-> FALSE, current_humidity |-> 0, target_humidity |-> 50,
     last_set_humidity |-> 50, current_temp |-> None, last_update |-> DatetimeMin]

\* history of the entity's commands: stage 1 after a successful
\* set_humidity(h), 2 after a successful turn_off following it and while polls
\* report the device off with target 0, 3 after a successful turn_on following
\* those, 0 otherwise; polls counts those polls up to MaxPolls;
\* commanded is when the last successful command returned
NoScenario == [stage |-> 0, h |-> 0, polls |-> 0, commanded |-> DatetimeMin]

NoCall ==
    [op |-> "", args |-> <<>>, ret |-> "", val |-> <<>>, reqs |-> <<>>,
     calls |-> <<>>, pre |-> Snapshot(NewClient(<<>>, 0))]

Init ==
    /\ access_token = None
    /\ refresh_token = None
    /\ token_expires_at = 0
    /\ username = None
    /\ password = None
    /\ session = 0
    /\ sessions = <<>>
    /\ now = 0
    /\ entry = "new"
    /\ registered = FALSE
    /\ closing = 0
    /\ sensor_entities = <<>>
    /\ humidifier = NewHumidifier
    /\ scenario = NoScenario
    /\ last = NoCall

\* no call is running and the last result has been taken
Idle == last.op = ""

\* the client's fields, the sessions and the clock after a call that ended in c
Commit(c, op, args, ret, val) ==
    /\ c.now <= MaxTime
    /\ Len(c.sessions) <= MaxSessions
    /\ access_token' = c.access_token
    /\ refresh_token' = c.refresh_token
    /\ token_expires_at' = c.token_expires_at
    /\ username' = c.username
    /\ password' = c.password
    /\ session' = c.session
    /\ sessions' = c.sessions
    /\ now' = c.now
    /\ last' = [op |-> op, args |-> args, ret |-> ret, val |-> val,
                reqs |-> c.reqs, calls |-> c.calls, pre |-> Snapshot(Client)]

Authenticate ==
    /\ Idle
    /\ \E u \in Users, p \in Passwords, resp \in TokenResponses :
        \E out \in {authenticate(Client, u, p, resp)} :
            /\ Commit(out.c, "authenticate", <<u, p>>, out.ret, <<>>)
            /\ UNCHANGED <<entry, registered, closing, sensor_entities, humidifier, scenario>>

RefreshAccessToken ==
    /\ Idle
    /\ \E s \in RefreshScripts(Client) :
        \E out \in {refresh_access_token(Client, s[1], s[2])} :
            /\ Commit(out.c, "refresh_access_token", <<>>, out.ret, <<>>)
            /\ UNCHANGED <<entry, registered, closing, sensor_entities, humidifier, scenario>>

MaybeRefreshToken ==
    /\ Idle
    /\ \E s \in TokScripts(Client) :
        \E out \in {maybe_refresh_token(Client, s[1], s[2])} :
            /\ Commit(out.c, "maybe_refresh_token", <<>>, out.ret, <<>>)
            /\ UNCHANGED <<entry, registered, closing, sensor_entities, humidifier, scenario>>

GetDevices ==
    /\ Idle
    /\ \E ts \in DeviceCallTokScripts(Client), g \in DeviceResponses :
        \E out \in {get_devices(Client, ts, g)} :
            /\ Commit(out.c, "get_devices", <<>>, out.ret, out.val)
            /\ UNCHANGED <<entry, registered, closing, sensor_entities, humidifier, scenario>>

GetParentInstances ==
    /\ Idle
    /\ \E g \in DeviceResponses :
        \E out \in {get_parent_instances(Client, g)} :
            /\ Commit(out.c, "get_parent_instances", <<>>, out.ret, out.val)
            /\ UNCHANGED <<entry, registered, closing, sensor_entities, humidifier, scenario>>

GetLatestDatapoints ==
    /\ Idle
    /\ \E uid \in DeviceIds, ts \in DeviceCallTokScripts(Client), g \in DatapointResponses :
        \E out \in {get_latest_datapoints(Client, uid, ts, g)} :
            /\ Commit(out.c, "get_latest_datapoints", <<uid>>, out.ret, out.val)
            /\ UNCHANGED <<entry, registered, closing, sensor_entities, humidifier, scenario>>

GetActions ==
    /\ Idle
    /\ \E uid \in DeviceIds, ts \in DeviceCallTokScripts(Client), g \in ActionResponses :
        \E out \in {get_actions(Client, uid, ts, g)} :
            /\ Commit(out.c, "get_actions", <<uid>>, out.ret, out.val)
            /\ UNCHANGED <<entry, registered, closing, sensor_entities, humidifier, scenario>>

\* whether the maybe_refresh_token call at c, given ts, returns (so that the
\* request after it is sent)
Passes(c, ts) == IsBool(maybe_refresh_token(c, ts[1], ts[2]).ret)

InvokeAction ==
    /\ Idle
    /\ \E uid \in DeviceIds, ts \in DeviceCallTokScripts(Client) :
        \E p \in IF Passes(Client, ts) THEN InvokeResponses ELSE {NoData} :
        \E out \in {invoke_action(Client, "7", uid, "1", ts, p)} :
            /\ Commit(out.c, "invoke_action", <<"7", uid, "1">>, out.ret, <<>>)
            /\ UNCHANGED <<entry, registered, closing, sensor_entities, humidifier, scenario>>

\* whether a set_on_off / set_humidity_reference call goes on to invoke_action
\* after get_actions ended as ga
Invokes(ga, name) == ga.ret = "ok" /\ FirstNamed(ga.val, name, 1) # 0

SetOnOff ==
    /\ Idle
    /\ \E uid \in DeviceIds, turn_on \in BOOLEAN :
        \E ts1 \in DeviceCallTokScripts(Client), g \in ActionResponses :
        \E ga \in {get_actions(Client, uid, ts1, g)} :
        \E ts2 \in IF Invokes(ga, "Area OnOff") THEN DeviceCallTokScripts(ga.c)
                   ELSE {<<NoResponse, NoResponse>>} :
        \E p \in IF Invokes(ga, "Area OnOff") /\ Passes(ga.c, ts2)
                 THEN InvokeResponses ELSE {NoData} :
        \E out \in {set_on_off(Client, uid, turn_on, ts1, g, ts2, p)} :
            /\ Commit(out.c, "set_on_off", <<uid, IF turn_on THEN "True" ELSE "False">>,
                      out.ret, <<ga.val>>)
            /\ UNCHANGED <<entry, registered, closing, sensor_entities, humidifier, scenario>>

SetHumidityReference ==
    /\ Idle
    /\ \E uid \in DeviceIds, humidity \in HumidityValues :
        \E ts1 \in DeviceCallTokScripts(Client), g \in ActionResponses :
        \E ga \in {get_actions(Client, uid, ts1, g)} :
        \E ts2 \in IF Invokes(ga, "Humidity Reference") THEN DeviceCallTokScripts(ga.c)
                   ELSE {<<NoResponse, NoResponse>>} :
        \E p \in IF Invokes(ga, "Humidity Reference") /\ Passes(ga.c, ts2)
                 THEN InvokeResponses ELSE {NoData} :
        \E out \in {set_humidity_reference(Client, uid, humidity, ts1, g, ts2, p)} :
            /\ Commit(out.c, "set_humidity_reference", <<uid, StrOfInt(humidity)>>,
                      out.ret, <<ga.val>>)
            /\ UNCHANGED <<entry, registered, closing, sensor_entities, humidifier, scenario>>

CloseSession ==
    /\ Idle
    /\ Commit(close_session(Client), "close_session", <<>>, "None", <<>>)
    /\ UNCHANGED <<entry, registered, closing, sensor_entities, humidifier, scenario>>

\* close_session reaches its await; other calls may run before it resumes
CloseSessionBegin ==
    /\ Idle
    /\ closing = 0
    /\ session # 0 /\ IsOpen(sessions, session)
    /\ \E closed_at_once \in BOOLEAN :
        sessions' = close_session_begin(Client, closed_at_once).sessions
    /\ closing' = session
    /\ UNCHANGED <<access_token, refresh_token, token_expires_at, username,
                   password, session, now, entry, registered, sensor_entities,
                   humidifier, scenario, last>>

\* the suspended close_session resumes and returns
CloseSessionEnd ==
    /\ Idle
    /\ closing # 0
    /\ Commit(close_session_end(Client, closing), "close_session",
              <<"suspended">>, "None", <<>>)
    /\ closing' = 0
    /\ UNCHANGED <<entry, registered, sensor_entities, humidifier, scenario>>

\* time passes between calls
Tick ==
    /\ Idle
    /\ now + LatStep <= MaxTime
    /\ now' = now + LatStep
    /\ UNCHANGED <<access_token, refresh_token, token_expires_at, username,
                   password, session, sessions, entry, registered, closing,
                   sensor_entities, humidifier, scenario, last>>

\* the caller takes the result of the call; the client is idle again
Resume ==
    /\ ~Idle
    /\ last' = NoCall
    /\ UNCHANGED <<access_token, refresh_token, token_expires_at, username,
                   password, session, sessions, now, entry, registered, closing,
                   sensor_entities, humidifier, scenario>>

---------------------------------------------------------------------------
(* The config entry's lifecycle (custom_components/condair/__init__.py) *)

\* entry.data as the config flow or a hand-edited entry may leave it
EntryData == { <<"u1", "p1">>, <<None, "p1">> }

\* async_setup_entry: [c, ret, registered]; without credentials no client is made
async_setup_entry(ss, t, data, resp) ==
    IF ~Truthy(data[1]) \/ ~Truthy(data[2])
    THEN [c |-> NewClient(ss, t), ret |-> "False", registered |-> FALSE]
    ELSE Bind(authenticate(NewClient(ss, t), data[1], data[2], resp), LAMBDA a :
              IF a.ret = "True"
              THEN [c |-> a.c, ret |-> "True", registered |-> TRUE]
              ELSE [c |-> a.c, ret |-> a.ret, registered |-> FALSE])

\* async_unload_entry: api = hass.data[DOMAIN].pop(entry_id, None)
async_unload_entry(c, reg) ==
    IF reg THEN close_session(c) ELSE c

AsyncSetupEntry ==
    /\ Idle
    /\ entry \in {"new", "setup_failed", "unloaded"}
    /\ \E data \in EntryData :
        \E resp \in IF Truthy(data[1]) /\ Truthy(data[2]) THEN TokenResponses
                    ELSE {NoResponse} :
        \E out \in {async_setup_entry(sessions, now, data, resp)} :
            /\ Commit(out.c, "async_setup_entry", data, out.ret, <<>>)
            /\ registered' = out.registered
            /\ entry' = IF out.ret = "True" THEN "loaded" ELSE "setup_failed"
            /\ UNCHANGED <<closing, sensor_entities, humidifier, scenario>>

AsyncUnloadEntry ==
    /\ Idle
    /\ entry = "loaded"
    /\ Commit(async_unload_entry(Client, registered), "async_unload_entry", <<>>,
              "True", <<>>)
    /\ registered' = FALSE
    /\ entry' = "unloaded"
    /\ UNCHANGED <<closing, sensor_entities, humidifier, scenario>>

\* a platform of the loaded entry polls a device through the registered client
PlatformPoll ==
    /\ registered
    /\ GetLatestDatapoints

---------------------------------------------------------------------------
(* The sensor platform (custom_components/condair/sensor.py) *)

\* the answers platform setup is run against: listings of at most
\* MaxSetupDevices devices that arrive at once, and datapoint answers that
\* arrive at once and are a JSON array or a failed connection
SetupListings ==
    { g \in DeviceResponses : Len(g.items) <= MaxSetupDevices /\ g.lat = 0 }
SetupDatapointResponses ==
    { g \in DatapointResponses :
        g.lat = 0 /\ g.kind \in {"json_list", "client_error"} }

\* "v is not None" of a snapshot's average, which is a float (in tenths)
\* wherever the key is present
IsNotNone(v) == v \in Int

SensorEntity(kind, unique_id) == [kind |-> kind, unique_id |-> unique_id]

\* one turn of "for device in devices" in the platform's async_setup_entry:
\* st is [c, entities, log], log noting what get_latest_datapoints gave for
\* each device it was called for; datapoints["temperature_avg"] and
\* datapoints["humidity_avg"] raise KeyError for a missing key, which the
\* "except Exception" of the turn catches
sensor_setup_device(st, device, ts, g) ==
    IF ~Truthy(DictGet(device.uniqueId)) THEN st
    ELSE
    Bind(get_latest_datapoints(st.c, device.uniqueId, ts, g), LAMBDA gl :
    IF gl.ret # "ok"
    THEN [c |-> gl.c, entities |-> st.entities,
          log |-> Append(st.log, [unique_id |-> device.uniqueId, ret |-> gl.ret,
                                  datapoints |-> EmptySnapshot])]
    ELSE
    LET datapoints == gl.val[1]
        noted == Append(st.log, [unique_id |-> device.uniqueId, ret |-> "ok",
                                 datapoints |-> datapoints])
    IN  IF "temperature_avg" \notin DOMAIN datapoints
        THEN [c |-> gl.c, entities |-> st.entities, log |-> noted]
        ELSE IF "humidity_avg" \notin DOMAIN datapoints
        THEN [c |-> gl.c, entities |-> st.entities, log |-> noted]
        ELSE LET has_temp == IsNotNone(datapoints["temperature_avg"])
                 has_humidity == IsNotNone(datapoints["humidity_avg"])
                 with_temp == IF has_temp
                              THEN Append(st.entities,
                                          SensorEntity("temperature", device.uniqueId))
                              ELSE st.entities
             IN  IF ~has_temp /\ ~has_humidity
                 THEN [c |-> gl.c, entities |-> st.entities, log |-> noted]
                 ELSE
                 [c |-> gl.c,
                  entities |-> IF has_humidity
                               THEN Append(with_temp,
                                           SensorEntity("humidity", device.uniqueId))
                               ELSE with_temp,
                  log |-> noted])

\* the loop "for device in devices", answers[i] answering the calls of turn i
RECURSIVE sensor_setup_devices(_, _, _, _)
sensor_setup_devices(st, devices, i, answers) ==
    IF i > Len(devices) THEN st
    ELSE sensor_setup_devices(
             sensor_setup_device(st, devices[i], answers[i][1], answers[i][2]),
             devices, i + 1, answers)

\* the platform's async_setup_entry: [c, ret, entities, log]; an exception of
\* get_devices ends it before any entity is added
sensor_async_setup_entry(c, ts, g, answers) ==
    Bind(get_devices(c, ts, g), LAMBDA gd :
    IF gd.ret # "ok"
    THEN [c |-> gd.c, ret |-> gd.ret, entities |-> <<>>, log |-> <<>>]
    ELSE Bind(sensor_setup_devices([c |-> gd.c, entities |-> <<>>, log |-> <<>>],
                                   gd.val, 1, answers), LAMBDA st :
              [c |-> st.c, ret |-> "None", entities |-> st.entities, log |-> st.log]))

\* the answers turn i onwards consume, from the state st before turn i
RECURSIVE SetupAnswers(_, _, _)
SetupAnswers(st, devices, i) ==
    IF i > Len(devices) THEN { <<>> }
    ELSE UNION { { <<a>> \o rest :
                     rest \in SetupAnswers(sensor_setup_device(st, devices[i], a[1], a[2]),
                                           devices, i + 1) } :
                 a \in IF Truthy(DictGet(devices[i].uniqueId))
                       THEN DeviceCallTokScripts(st.c) \X SetupDatapointResponses
                       ELSE { <<<<NoResponse, NoResponse>>, NoData>> } }

\* the sensor platform of the loaded entry is set up
SensorSetup ==
    /\ Idle
    /\ registered
    /\ \E ts \in DeviceCallTokScripts(Client), g \in SetupListings :
        \E gd \in {get_devices(Client, ts, g)} :
        \E answers \in IF gd.ret = "ok"
                       THEN SetupAnswers([c |-> gd.c, entities |-> <<>>, log |-> <<>>],
                                         gd.val, 1)
                       ELSE { <<>> } :
        \E out \in {sensor_async_setup_entry(Client, ts, g, answers)} :
            /\ Commit(out.c, "sensor_async_setup_entry", <<>>, out.ret, out.log)
            /\ sensor_entities' = IF out.ret = "None" THEN out.entities
                                  ELSE sensor_entities
            /\ UNCHANGED <<entry, registered, closing, humidifier, scenario>>

---------------------------------------------------------------------------
(* The humidifier platform (custom_components/condair/humidifier.py): the  *)
(* entity of device "A1"                                                   *)

UPDATE_COOLDOWN == 30

\* the answers the entity's calls are run against: those that arrive at once
EntityDatapointResponses == { g \in DatapointResponses : g.lat = 0 }
EntityActionResponses == { g \in ActionResponses : g.lat = 0 }
EntityInvokeResponses == { p \in InvokeResponses : p.lat = 0 }

\* int() of a float held in tenths
IntOfFloat(x) == IF x >= 0 THEN x \div 10 ELSE -((-x) \div 10)

\* (now - self._last_update) < timedelta(seconds=UPDATE_COOLDOWN)
InCooldown_never(e, t) == FALSE

InCooldown(e, t) ==
    e.last_update.set /\ t - e.last_update.at < UPDATE_COOLDOWN

\* the assignments of async_update from the fetched data
update_from_data_no_retain(e, data) ==
    LET e1 == IF "is_on" \in DOMAIN data THEN [e EXCEPT !.is_on = data["is_on"]] ELSE e
        target_humidity == IntOfFloat(data["target_humidity"])
        e2 == IF "target_humidity" \in DOMAIN data
              THEN IF e1.is_on
                   THEN [e1 EXCEPT !.target_humidity = target_humidity,
                                   !.last_set_humidity = target_humidity]
                   ELSE [e1 EXCEPT !.target_humidity = target_humidity]
              ELSE e1
        e3 == IF "humidity_avg" \in DOMAIN data
              THEN [e2 EXCEPT !.current_humidity = IntOfFloat(data["humidity_avg"])]
              ELSE e2
    IN  IF "temperature_avg" \in DOMAIN data
        THEN [e3 EXCEPT !.current_temp = data["temperature_avg"]]
        ELSE e3

update_from_data(e, data) ==
    LET e1 == IF "is_on" \in DOMAIN data THEN [e EXCEPT !.is_on = data["is_on"]] ELSE e
        target_humidity == IntOfFloat(data["target_humidity"])
        e2 == IF "target_humidity" \in DOMAIN data
              THEN IF e1.is_on
                   THEN [e1 EXCEPT !.target_humidity = target_humidity,
                                   !.last_set_humidity = target_humidity]
                   ELSE IF target_humidity = 0 THEN e1
                   ELSE [e1 EXCEPT !.target_humidity = target_humidity]
              ELSE e1
        e3 == IF "humidity_avg" \in DOMAIN data
              THEN [e2 EXCEPT !.current_humidity = IntOfFloat(data["humidity_avg"])]
              ELSE e2
    IN  IF "temperature_avg" \in DOMAIN data
        THEN [e3 EXCEPT !.current_temp = data["temperature_avg"]]
        ELSE e3

\* async_update: [e, c, ret, val]; val holds the data fetched, ret is "None"
\* or the exception of get_latest_datapoints, which leaves the entity as it was
async_update(e, c, ts, g) ==
    IF InCooldown(e, c.now) THEN [e |-> e, c |-> c, ret |-> "None", val |-> <<>>]
    ELSE Bind(get_latest_datapoints(c, EntityId, ts, g), LAMBDA gl :
              IF gl.ret # "ok"
              THEN [e |-> e, c |-> gl.c, ret |-> gl.ret, val |-> <<>>]
              ELSE [e |-> update_from_data(e, gl.val[1]), c |-> gl.c,
                    ret |-> "None", val |-> gl.val])

\* async_turn_on, async_turn_off, async_set_humidity: [e, c, ret], ret the
\* result of the client call
async_turn_on(e, c, ts1, g, ts2, p) ==
    Bind(set_on_off(c, EntityId, TRUE, ts1, g, ts2, p), LAMBDA out :
         [e |-> IF out.ret = "True"
                THEN [e EXCEPT !.is_on = TRUE,
                               !.target_humidity = e.last_set_humidity,
                               !.last_update = At(out.c.now)]
                ELSE e,
          c |-> out.c, ret |-> out.ret])

async_turn_off(e, c, ts1, g, ts2, p) ==
    Bind(set_on_off(c, EntityId, FALSE, ts1, g, ts2, p), LAMBDA out :
         [e |-> IF out.ret = "True"
                THEN [e EXCEPT !.is_on = FALSE, !.last_update = At(out.c.now)]
                ELSE e,
          c |-> out.c, ret |-> out.ret])

async_set_humidity(e, c, humidity, ts1, g, ts2, p) ==
    Bind(set_humidity_reference(c, EntityId, humidity, ts1, g, ts2, p), LAMBDA out :
         [e |-> IF out.ret = "True"
                THEN [e EXCEPT !.target_humidity = humidity,
                               !.last_set_humidity = humidity,
                               !.last_update = At(out.c.now)]
                ELSE e,
          c |-> out.c, ret |-> out.ret])

\* the history after a command that returned ret at time t
Commanded(stage, h, polls, ret, t) ==
    IF ret = "True"
    THEN [stage |-> stage, h |-> h, polls |-> polls, commanded |-> At(t)]
    ELSE [scenario EXCEPT !.stage = 0, !.h = 0, !.polls = 0]

\* the history after a poll: a poll that fetched nothing leaves it, a poll
\* reporting the device off with target 0 keeps stage 2
Polled(out) ==
    IF out.c.reqs = <<>> /\ out.c.calls = <<>> THEN scenario
    ELSE IF /\ scenario.stage = 2
            /\ out.ret = "None"
            /\ "is_on" \in DOMAIN out.val[1]
            /\ "target_humidity" \in DOMAIN out.val[1]
            /\ ~out.val[1]["is_on"]
            /\ out.val[1]["target_humidity"] = 0
         THEN [scenario EXCEPT !.polls = IF @ < MaxPolls THEN @ + 1 ELSE @]
    ELSE [scenario EXCEPT !.stage = 0, !.h = 0, !.polls = 0]

\* the entry of the entity is set up: async_setup_entry of the integration,
\* its sign-in answered at once with both tokens
EntityTokenResponses ==
    { r \in TokenResponses :
        /\ r.lat = 0 /\ r.kind = "json_dict" /\ ~r.error
        /\ r.access_token = "a1" /\ r.refresh_token = "r1"
        /\ r.expires_in = ExpInAbsent }

HumidifierEntrySetup ==
    /\ Idle
    /\ entry = "new"
    /\ \E data \in { d \in EntryData : Truthy(d[1]) /\ Truthy(d[2]) } :
        \E resp \in EntityTokenResponses :
        \E out \in {async_setup_entry(sessions, now, data, resp)} :
            /\ Commit(out.c, "async_setup_entry", data, out.ret, <<>>)
            /\ registered' = out.registered
            /\ entry' = IF out.ret = "True" THEN "loaded" ELSE "setup_failed"
            /\ UNCHANGED <<closing, sensor_entities, humidifier, scenario>>

HumidifierUpdate ==
    /\ Idle
    /\ registered
    /\ \E ts \in IF InCooldown(humidifier, now) THEN {<<NoResponse, NoResponse>>}
                 ELSE DeviceCallTokScripts(Client) :
       \E g \in IF InCooldown(humidifier, now) THEN {NoData}
                ELSE EntityDatapointResponses :
        \E out \in {async_update(humidifier, Client, ts, g)} :
            /\ Commit(out.c, "async_update", <<>>, out.ret, out.val)
            /\ humidifier' = out.e
            /\ scenario' = Polled(out)
            /\ UNCHANGED <<entry, registered, closing, sensor_entities>>

HumidifierTurnOn ==
    /\ Idle
    /\ registered
    /\ \E ts1 \in DeviceCallTokScripts(Client), g \in EntityActionResponses :
        \E ga \in {get_actions(Client, EntityId, ts1, g)} :
        \E ts2 \in IF Invokes(ga, "Area OnOff") THEN DeviceCallTokScripts(ga.c)
                   ELSE {<<NoResponse, NoResponse>>} :
        \E p \in IF Invokes(ga, "Area OnOff") /\ Passes(ga.c, ts2)
                 THEN EntityInvokeResponses ELSE {NoData} :
        \E out \in {async_turn_on(humidifier, Client, ts1, g, ts2, p)} :
            /\ Commit(out.c, "async_turn_on", <<>>, out.ret, <<>>)
            /\ humidifier' = out.e
            /\ scenario' = Commanded(IF scenario.stage = 2 THEN 3 ELSE 0,
                                     IF scenario.stage = 2 THEN scenario.h ELSE 0,
                                     IF scenario.stage = 2 THEN scenario.polls ELSE 0,
                                     out.ret, out.c.now)
            /\ UNCHANGED <<entry, registered, closing, sensor_entities>>

HumidifierTurnOff ==
    /\ Idle
    /\ registered
    /\ \E ts1 \in DeviceCallTokScripts(Client), g \in EntityActionResponses :
        \E ga \in {get_actions(Client, EntityId, ts1, g)} :
        \E ts2 \in IF Invokes(ga, "Area OnOff") THEN DeviceCallTokScripts(ga.c)
                   ELSE {<<NoResponse, NoResponse>>} :
        \E p \in IF Invokes(ga, "Area OnOff") /\ Passes(ga.c, ts2)
                 THEN EntityInvokeResponses ELSE {NoData} :
        \E out \in {async_turn_off(humidifier, Client, ts1, g, ts2, p)} :
            /\ Commit(out.c, "async_turn_off", <<>>, out.ret, <<>>)
            /\ humidifier' = out.e
            /\ scenario' = Commanded(IF scenario.stage = 1 THEN 2 ELSE 0,
                                     IF scenario.stage = 1 THEN scenario.h ELSE 0,
                                     0, out.ret, out.c.now)
            /\ UNCHANGED <<entry, registered, closing, sensor_entities>>

HumidifierSetHumidity ==
    /\ Idle
    /\ registered
    /\ \E humidity \in HumidityValues :
        \E ts1 \in DeviceCallTokScripts(Client), g \in EntityActionResponses :
        \E ga \in {get_actions(Client, EntityId, ts1, g)} :
        \E ts2 \in IF Invokes(ga, "Humidity Reference") THEN DeviceCallTokScripts(ga.c)
                   ELSE {<<NoResponse, NoResponse>>} :
        \E p \in IF Invokes(ga, "Humidity Reference") /\ Passes(ga.c, ts2)
                 THEN EntityInvokeResponses ELSE {NoData} :
        \E out \in {async_set_humidity(humidifier, Client, humidity, ts1, g, ts2, p)} :
            /\ Commit(out.c, "async_set_humidity", <<StrOfInt(humidity)>>, out.ret, <<>>)
            /\ humidifier' = out.e
            /\ scenario' = Commanded(1, humidity, 0, out.ret, out.c.now)
            /\ UNCHANGED <<entry, registered, closing, sensor_entities>>

\* seconds pass between the entity's commands and polls
TickSeconds ==
    /\ Idle
    /\ now + CooldownStep <= MaxCooldownTime
    /\ now' = now + CooldownStep
    /\ UNCHANGED <<access_token, refresh_token, token_expires_at, username,
                   password, session, sessions, entry, registered, closing,
                   sensor_entities, humidifier, scenario, last>>

---------------------------------------------------------------------------

Next ==
    \/ Resume
    \/ Authenticate
    \/ RefreshAccessToken
    \/ MaybeRefreshToken
    \/ GetDevices
    \/ GetParentInstances
    \/ GetLatestDatapoints
    \/ GetActions
    \/ InvokeAction
    \/ CloseSession
    \/ Tick

\* the client's token, session and single-request calls, in any order
Spec == Init /\ [][Next]_vars

NextDevice ==
    \/ Resume
    \/ Authenticate
    \/ InvokeAction
    \/ SetOnOff
    \/ SetHumidityReference
    \/ Tick

\* sign-in, invoke_action and the two device commands, in any order
SpecDevice == Init /\ [][NextDevice]_vars

NextEntry ==
    \/ Resume
    \/ AsyncSetupEntry
    \/ PlatformPoll
    \/ AsyncUnloadEntry
    \/ Tick

\* the config entry set up, polled, unloaded and set up again
SpecEntry == Init /\ [][NextEntry]_vars

\* the entry is set up and Home Assistant sets up its sensor platform
NextSensor ==
    \/ Resume
    \/ AsyncSetupEntry
    \/ SensorSetup

SpecSensor == Init /\ [][NextSensor]_vars

\* the entry is set up and Home Assistant drives the humidifier entity
NextHumidifier ==
    \/ Resume
    \/ HumidifierEntrySetup
    \/ HumidifierUpdate
    \/ HumidifierTurnOn
    \/ HumidifierTurnOff
    \/ HumidifierSetHumidity
    \/ TickSeconds

SpecHumidifier == Init /\ [][NextHumidifier]_vars

NextClose ==
    \/ Resume
    \/ Authenticate
    \/ GetDevices
    \/ CloseSessionBegin
    \/ CloseSessionEnd
    \/ Tick

\* calls of the client running while a close_session is suspended
SpecClose == Init /\ [][NextClose]_vars

---------------------------------------------------------------------------
(* Properties.  They read the record last of the call that has just ended: *)
(* last.pre is the client before the call, last.reqs the requests the call *)
(* sent (each with the answer it got), last.calls the client methods that  *)
(* returned during the call, innermost first, last.ret the result.         *)

NumReqs == Len(last.reqs)
ReqsTo(ep) == { i \in 1..NumReqs : last.reqs[i].ep = ep }
HasError(rq) == rq.resp.kind = "json_dict" /\ rq.resp.error
NoAnswer(rq) == rq.resp.kind \in {"client_error", "http_error"}
CredentialsStored == Truthy(last.pre.username) /\ Truthy(last.pre.password)
ReturnsOf(op) == { i \in 1..Len(last.calls) : last.calls[i].op = op }

DataEndpoints == {DevicesEndpoint, DatapointsEndpoint, ActionsEndpoint, InvokeEndpoint}

\* C1: a device, datapoint, action-list or invoke-action request is sent only
\* while an access token is held and now < expires_at.
C1_DataRequestsAuthorized ==
    \A i \in 1..NumReqs :
        last.reqs[i].ep \in DataEndpoints => last.reqs[i].valid

\* C2 as stated: maybe_refresh_token sends nothing when now < expires_at and
\* always sends a request when now >= expires_at.
C2_RefreshIffExpired ==
    last.op = "maybe_refresh_token" =>
        /\ last.pre.now < last.pre.token_expires_at => NumReqs = 0
        /\ last.pre.now >= last.pre.token_expires_at => NumReqs > 0

\* C2 amended: maybe_refresh_token sends a request exactly when now >=
\* expires_at and both an access token and a refresh token are held.
C2_RefreshIffExpiredAndHeld ==
    last.op = "maybe_refresh_token" =>
        ( NumReqs > 0 <=>
            /\ last.pre.now >= last.pre.token_expires_at
            /\ Truthy(last.pre.access_token)
            /\ Truthy(last.pre.refresh_token) )

C2_Witness ==
    /\ last.op = "maybe_refresh_token"
    /\ last.pre.now >= last.pre.token_expires_at
    /\ NumReqs > 0
    /\ last.ret = "True"

\* exactly one sign-in request follows the refresh request, with the stored
\* credentials, and the call ends with the result of that sign-in
ReauthenticatedOnce ==
    /\ NumReqs = 2
    /\ last.reqs[2].ep = SignInEndpoint
    /\ last.reqs[2].body = <<last.pre.username, last.pre.password>>
    /\ Cardinality(ReturnsOf("authenticate")) = 1
    /\ \A i \in ReturnsOf("authenticate") : last.calls[i].ret = last.ret

\* C3 as stated: with credentials stored, any failure of the refresh request
\* leads to exactly one re-authentication, whose result the call returns.
C3_AnyRefreshFailureReauthenticates ==
    ( /\ last.op = "refresh_access_token"
      /\ CredentialsStored
      /\ NumReqs > 0
      /\ HasError(last.reqs[1]) \/ NoAnswer(last.reqs[1]) )
    => ReauthenticatedOnce

\* C3 amended: with credentials stored, a refresh response that has an error
\* member leads to exactly one re-authentication with the stored credentials,
\* whose result the call returns; a transport error or a non-2xx status of the
\* refresh request makes the call return False without re-authenticating.
C3_ErrorResponseReauthenticates ==
    ( /\ last.op = "refresh_access_token"
      /\ CredentialsStored
      /\ NumReqs > 0 )
    => /\ last.reqs[1].ep = RefreshEndpoint
       /\ HasError(last.reqs[1]) => ReauthenticatedOnce
       /\ NoAnswer(last.reqs[1]) => NumReqs = 1 /\ last.ret = "False"

C3_Witness ==
    /\ last.op = "refresh_access_token"
    /\ CredentialsStored
    /\ NumReqs = 2
    /\ HasError(last.reqs[1])
    /\ last.ret = "True"

\* C4 as stated: authenticate and refresh_access_token return False whenever
\* the sign-in, resp. refresh, response has an error member.
C4_ErrorResponseFails ==
    ( /\ last.op \in {"authenticate", "refresh_access_token"}
      /\ NumReqs > 0
      /\ HasError(last.reqs[1]) )
    => last.ret = "False"

\* C4 amended: authenticate returns False whenever the sign-in response has an
\* error member; refresh_access_token returns False on a refresh response with
\* an error member when no credentials are stored or when the response to the
\* re-authentication has an error member too.
C4_ErrorResponseFailsUnlessReauthenticated ==
    /\ ( /\ last.op = "authenticate"
         /\ HasError(last.reqs[1]) )
       => last.ret = "False"
    /\ ( /\ last.op = "refresh_access_token"
         /\ NumReqs > 0
         /\ HasError(last.reqs[1])
         /\ ~CredentialsStored \/ (NumReqs = 2 /\ HasError(last.reqs[2])) )
       => last.ret = "False"

C4_Witness ==
    /\ last.op = "refresh_access_token"
    /\ CredentialsStored
    /\ NumReqs = 2
    /\ HasError(last.reqs[1])
    /\ HasError(last.reqs[2])
    /\ last.reqs[2].resp.access_token # Absent
    /\ last.ret = "False"

\* C5: authenticate, invoke_action, set_on_off and set_humidity_reference end
\* with a boolean when a remote step fails by a transport error, a non-2xx
\* status, an error member or a non-JSON body (every answer of the call being a
\* well-formed one or one of these failures).
WellFormedOrFailure(rq) ==
    \/ rq.resp.kind \in {"client_error", "http_error", "non_json"}
    \/ HasError(rq)
    \/ /\ rq.ep \in {SignInEndpoint, RefreshEndpoint}
       /\ rq.resp.kind = "json_dict"
       /\ Truthy(rq.resp.access_token) /\ Truthy(rq.resp.refresh_token)
       /\ rq.resp.expires_in.t \in {"absent", "int"}
    \/ rq.ep = ActionsEndpoint /\ rq.resp.kind = "json_list"
    \/ rq.ep = InvokeEndpoint /\ rq.resp.kind = "json_dict"

C5_BooleanResult ==
    ( /\ last.op \in {"authenticate", "invoke_action", "set_on_off",
                      "set_humidity_reference"}
      /\ \A i \in 1..NumReqs : WellFormedOrFailure(last.reqs[i]) )
    => IsBool(last.ret)

\* the expires_in the claim gives a sign-in response: its integer, 3600 when
\* the member is missing or is no valid integer
ClaimedExpiresIn(x) ==
    IF x.t = "int" THEN x.n
    ELSE IF x.t = "str" /\ x.s = "60" THEN 60
    ELSE 3600

\* C6: a sign-in response with access_token and refresh_token and no error
\* makes authenticate return True, store both tokens and the credentials, and
\* set expires_at = now + expires_in - 30, expires_in being 3600 when it is
\* missing or no valid integer of whatever JSON type.
C6_SignInStoresTokensAndExpiry ==
    ( /\ last.op = "authenticate"
      /\ last.reqs[1].resp.kind = "json_dict"
      /\ ~last.reqs[1].resp.error
      /\ last.reqs[1].resp.access_token # Absent
      /\ last.reqs[1].resp.refresh_token # Absent )
    => /\ last.ret = "True"
       /\ access_token = last.reqs[1].resp.access_token
       /\ refresh_token = last.reqs[1].resp.refresh_token
       /\ <<username, password>> = last.args
       /\ token_expires_at = now + ClaimedExpiresIn(last.reqs[1].resp.expires_in) - 30

OpenSessions == { i \in 1..Len(sessions) : sessions[i] = 0 }
WasOpen(i) == i \in 1..Len(last.pre.sessions) /\ last.pre.sessions[i] = 0

\* C7: the client holds at most one open session, which is the one it refers
\* to; a call's requests all go out on the session that was open before the
\* call, or on one fresh session when none was (none yet, or closed by
\* close_session); close_session closes the open session once and drops it,
\* and is a no-op that does not fail when there is none.
C7_OneSession ==
    /\ OpenSessions \subseteq {session}
    /\ \A i \in 1..Len(sessions) : sessions[i] <= 1
    /\ \A i \in 1..NumReqs :
        last.reqs[i].session =
            IF WasOpen(last.pre.session) THEN last.pre.session
            ELSE Len(last.pre.sessions) + 1
    /\ last.op = "close_session" =>
        /\ last.ret = "None"
        /\ session = 0
        /\ OpenSessions = {}
        /\ sessions = IF WasOpen(last.pre.session)
                      THEN [last.pre.sessions EXCEPT ![last.pre.session] = 1]
                      ELSE last.pre.sessions

\* a request sent after close_session went out on a second, fresh session,
\* which a later call reuses
C7_Witness ==
    /\ sessions = <<1, 0>>
    /\ session = 2
    /\ NumReqs > 0
    /\ last.pre.session = 2
    /\ last.reqs[1].session = 2

\* C8: once setup has returned failure or the entry has been unloaded, every
\* session created for the entry has been closed exactly once.
C8_SessionsClosedAtEnd ==
    entry \in {"setup_failed", "unloaded"} =>
        \A i \in 1..Len(sessions) : sessions[i] = 1

GotActions == \E i \in ReturnsOf("get_actions") : last.calls[i].ret = "ok"
ActionList == last.val[1]
Named(name) == { j \in 1..Len(ActionList) : ActionList[j].name = name }
ActionNameOf(op) ==
    IF op = "set_on_off" THEN "Area OnOff" ELSE "Humidity Reference"

\* C9: when the action list has no action named "Area OnOff" (resp. "Humidity
\* Reference"), set_on_off (resp. set_humidity_reference) returns False and
\* sends no invoke-action request.
C9_MissingActionFails ==
    ( /\ last.op \in {"set_on_off", "set_humidity_reference"}
      /\ GotActions
      /\ Named(ActionNameOf(last.op)) = {} )
    => /\ last.ret = "False"
       /\ ReqsTo(InvokeEndpoint) = {}

C9_Witness ==
    /\ last.op = "set_on_off"
    /\ GotActions
    /\ Len(ActionList) > 0
    /\ Named("Area OnOff") = {}
    /\ last.ret = "False"

Min(S) == CHOOSE x \in S : \A y \in S : x <= y

\* C10: when the action named "Area OnOff" is found, set_on_off sends exactly
\* one invoke-action request, with the id of that action, the device id and
\* "1" or "0"; it returns True iff that request is answered (2xx) without an
\* error member; and on an answer with an error member invoke_action and
\* set_on_off both return False.
C10_FoundActionInvokedOnce ==
    ( /\ last.op = "set_on_off"
      /\ GotActions
      /\ Named("Area OnOff") # {} )
    => /\ Cardinality(ReqsTo(InvokeEndpoint)) = 1
       /\ \A i \in ReqsTo(InvokeEndpoint) :
            /\ last.reqs[i].body =
                 <<ActionList[Min(Named("Area OnOff"))].id, last.args[1],
                   IF last.args[2] = "True" THEN "1" ELSE "0">>
            /\ last.ret = "True" <=>
                 ~NoAnswer(last.reqs[i]) /\ ~HasError(last.reqs[i])
            /\ HasError(last.reqs[i]) =>
                 /\ last.ret = "False"
                 /\ \A k \in ReturnsOf("invoke_action") : last.calls[k].ret = "False"

---------------------------------------------------------------------------
(* The datapoint parser *)

DatapointCall ==
    last.op = "get_latest_datapoints" /\ ReqsTo(DatapointsEndpoint) # {}
RawAnswer == last.reqs[NumReqs].resp
RawIsArray == DatapointCall /\ RawAnswer.kind = "json_list"
Raw == RawAnswer.items
Entries(name) == { j \in 1..Len(Raw) : Raw[j].dataPointName = name }
Parsable(dp) == dp.value.t \in {"str", "num"} /\ IsFloatStr(dp.value.s)
ParsableEntries(name) == { j \in Entries(name) : Parsable(Raw[j]) }
Max(S) == CHOOSE x \in S : \A y \in S : y <= x
ReturnedSnapshot == last.val[1]

\* C11: for every raw datapoint array with an "Area OnOff" entry, the snapshot
\* has is_on, which is true iff the value of that entry (the last one, when
\* there are several) parses to exactly 1.0, and false when it parses to
\* another number, cannot be parsed or is missing.
C11_IsOnIffOne ==
    ( RawIsArray /\ Entries("Area OnOff") # {} )
    => /\ last.ret = "ok"
       /\ "is_on" \in DOMAIN ReturnedSnapshot
       /\ ReturnedSnapshot["is_on"] =
            ( /\ Parsable(Raw[Max(Entries("Area OnOff"))])
              /\ FloatOfStr(Raw[Max(Entries("Area OnOff"))].value.s) = 10 )

SnapshotKeys == {"humidity_avg", "temperature_avg", "target_humidity", "is_on"}
NumericFields ==
    { <<"humidity_avg", "Humidity Average">>,
      <<"temperature_avg", "Temperature Average">>,
      <<"target_humidity", "Humidity Reference">> }

\* C12: the snapshot of a raw datapoint array has keys among the four fields
\* only; a numeric field is there iff an entry of exactly its name has a
\* value that parses, and holds the last such value; other entries add
\* nothing; a response that is no array gives the empty snapshot.
C12_SnapshotFields ==
    ( DatapointCall /\ RawAnswer.kind \in {"json_list", "json_dict", "non_json"} )
    => /\ last.ret = "ok"
       /\ IF RawAnswer.kind = "json_list"
          THEN /\ DOMAIN ReturnedSnapshot \subseteq SnapshotKeys
               /\ \A f \in NumericFields :
                    /\ f[1] \in DOMAIN ReturnedSnapshot <=> ParsableEntries(f[2]) # {}
                    /\ ParsableEntries(f[2]) # {} =>
                         ReturnedSnapshot[f[1]] =
                             FloatOfStr(Raw[Max(ParsableEntries(f[2]))].value.s)
          ELSE DOMAIN ReturnedSnapshot = {}

ValidBefore ==
    Truthy(last.pre.access_token) /\ last.pre.now < last.pre.token_expires_at

\* the snapshot is the parse of the raw array alone, and parsing the array
\* again onto the snapshot changes nothing
SameSnapshotAgain ==
    ( RawIsArray /\ last.ret = "ok" )
    => /\ ReturnedSnapshot = parse_datapoints(EmptySnapshot, Raw).parsed
       /\ parse_datapoints(ReturnedSnapshot, Raw).parsed = ReturnedSnapshot

TokensAndCredentialsKept ==
    /\ access_token = last.pre.access_token
    /\ refresh_token = last.pre.refresh_token
    /\ token_expires_at = last.pre.token_expires_at
    /\ username = last.pre.username
    /\ password = last.pre.password

\* C15 as stated: with a valid token, get_latest_datapoints gives the same
\* snapshot for the same raw array and leaves tokens, credentials and the
\* session state as they were.
C15_ParseIdempotentStateKept ==
    ( last.op = "get_latest_datapoints" /\ ValidBefore )
    => /\ SameSnapshotAgain
       /\ TokensAndCredentialsKept
       /\ session = last.pre.session
       /\ sessions = last.pre.sessions

\* C15 amended: with a valid token, get_latest_datapoints gives the same
\* snapshot for the same raw array and leaves tokens and credentials as they
\* were; the session is kept when one was open, and one new session is
\* created (none closed) when none was.
C15_ParseIdempotentSessionEnsured ==
    ( last.op = "get_latest_datapoints" /\ ValidBefore )
    => /\ SameSnapshotAgain
       /\ TokensAndCredentialsKept
       /\ IF WasOpen(last.pre.session)
          THEN session = last.pre.session /\ sessions = last.pre.sessions
          ELSE /\ session = Len(last.pre.sessions) + 1
               /\ sessions = Append(last.pre.sessions, 0)

C15_Witness ==
    /\ RawIsArray
    /\ ValidBefore
    /\ last.ret = "ok"
    /\ DOMAIN ReturnedSnapshot = {"humidity_avg", "is_on"}
    /\ ~WasOpen(last.pre.session)
    /\ session = Len(last.pre.sessions) + 1

---------------------------------------------------------------------------
(* The device catalog *)

ListingAnswer == last.reqs[NumReqs].resp
Listed == ListingAnswer.items
SerialOf(d) == DictGet(d.parentSerialNumber)
Serials == { SerialOf(Listed[j]) : j \in 1..Len(Listed) }
FirstWith(serial) == Min({ j \in 1..Len(Listed) : SerialOf(Listed[j]) = serial })
ParentGroups == last.val

\* C13: given the device listing of the sensor-instances endpoint (the object
\* with the data member that get_devices reads, or the bare array),
\* get_parent_instances returns exactly one entry per distinct parent serial
\* number of the listed devices, each with the parent name of the first
\* device of that serial number.
C13_OneGroupPerParent ==
    ( /\ last.op = "get_parent_instances"
      /\ \/ ListingAnswer.kind = "json_list"
         \/ ListingAnswer.kind = "json_dict" /\ ListingAnswer.has_data )
    => /\ last.ret = "ok"
       /\ Len(ParentGroups) = Cardinality(Serials)
       /\ { ParentGroups[i].parentInstanceNumber : i \in 1..Len(ParentGroups) } = Serials
       /\ \A i \in 1..Len(ParentGroups) :
            ParentGroups[i].parentInstanceName =
                DictGet(Listed[FirstWith(ParentGroups[i].parentInstanceNumber)].parentInstanceName)

DevicesAnswered ==
    /\ last.op = "get_devices"
    /\ ReqsTo(DevicesEndpoint) # {}
    /\ ListingAnswer.kind \in {"json_dict", "json_list", "non_json"}

\* C14: get_devices returns the data member of a response that is an object
\* with one, and the empty list, not a failure, for every other 2xx response:
\* an object without data such as {}, an array, a non-JSON body.
C14_DataOrEmpty ==
    DevicesAnswered
    => /\ last.ret = "ok"
       /\ last.val = IF ListingAnswer.kind = "json_dict" /\ ListingAnswer.has_data
                     THEN Listed ELSE <<>>

C14_Witness ==
    /\ DevicesAnswered
    /\ ListingAnswer.kind = "json_list"
    /\ Len(Listed) > 0
    /\ last.ret = "ok"
    /\ last.val = <<>>

---------------------------------------------------------------------------
(* The token state *)

\* C16: refresh_access_token returns False and sends nothing when no refresh
\* token is held, and maybe_refresh_token returns False and sends nothing
\* when no access token is held, whatever expires_at and the stored
\* credentials are.
C16_NoTokenNoRequest ==
    /\ ( last.op = "refresh_access_token" /\ ~Truthy(last.pre.refresh_token) )
       => last.ret = "False" /\ NumReqs = 0
    /\ ( last.op = "maybe_refresh_token" /\ ~Truthy(last.pre.access_token) )
       => last.ret = "False" /\ NumReqs = 0

C16_Witness ==
    /\ last.op = "maybe_refresh_token"
    /\ ~Truthy(last.pre.access_token)
    /\ Truthy(last.pre.refresh_token)
    /\ CredentialsStored
    /\ last.pre.now >= last.pre.token_expires_at
    /\ last.ret = "False"
    /\ NumReqs = 0

TokenOps == {"authenticate", "refresh_access_token", "maybe_refresh_token"}

\* C17: when authenticate, refresh_access_token or maybe_refresh_token
\* returns True, the client holds a non-empty access token and a refresh
\* token.
C17_SuccessHoldsTokens ==
    ( last.op \in TokenOps /\ last.ret = "True" )
    => Truthy(access_token) /\ Truthy(refresh_token)

\* C18: an authenticate or refresh_access_token call that returns False
\* leaves access_token, refresh_token, expires_at, username and password as
\* they were before the call.
C18_FailureChangesNothing ==
    ( last.op \in {"authenticate", "refresh_access_token"} /\ last.ret = "False" )
    => TokensAndCredentialsKept

\* a failed sign-in with other credentials after a successful one
C18_Witness ==
    /\ last.op = "authenticate"
    /\ last.ret = "False"
    /\ last.pre.username = "u1"
    /\ last.args[1] = "u2"
    /\ Truthy(last.pre.access_token)
    /\ username = "u1"

\* access_token, refresh_token and expires_at as the last response of the
\* call gives them, the response having been received at now
WrittenFromLastResponse ==
    /\ NumReqs > 0
    /\ last.reqs[NumReqs].resp.kind \in {"json_dict", "non_json"}
    /\ access_token = DictGet(last.reqs[NumReqs].resp.access_token)
    /\ refresh_token = DictGet(last.reqs[NumReqs].resp.refresh_token)
    /\ token_expires_at =
         now + ClaimedExpiresIn(last.reqs[NumReqs].resp.expires_in) - 30

\* C19: access_token, refresh_token and expires_at are always written
\* together from one sign-in or refresh response, expires_at being the time
\* of its receipt plus its expires_in (3600 by default) minus 30: a token
\* call leaves the three as they were or leaves them as its last response
\* gives them.
C19_TokenFieldsFromOneResponse ==
    last.op \in TokenOps
    => \/ /\ access_token = last.pre.access_token
          /\ refresh_token = last.pre.refresh_token
          /\ token_expires_at = last.pre.token_expires_at
       \/ WrittenFromLastResponse

---------------------------------------------------------------------------
(* Calls that overlap *)

\* C20: when close_session has been suspended in closing the session and has
\* resumed, other calls having run meanwhile, every session the client
\* created is closed or is the one the client refers to.
C20_NoOrphanSession ==
    ( last.op = "close_session" /\ last.args = <<"suspended">> )
    => \A i \in 1..Len(sessions) : sessions[i] = 0 => i = session

---------------------------------------------------------------------------
(* The platforms *)

SetupLog == last.val
HasSensor(kind, unique_id) ==
    \E k \in 1..Len(sensor_entities) :
        sensor_entities[k] = SensorEntity(kind, unique_id)

\* C21: after sensor platform setup, for every listed device with a uniqueId
\* whose snapshot was fetched, there is a humidity sensor iff the snapshot
\* has humidity_avg and a temperature sensor iff it has temperature_avg, each
\* regardless of the other.
C21_SensorPerField ==
    ( last.op = "sensor_async_setup_entry" /\ last.ret = "None" )
    => \A i \in 1..Len(SetupLog) :
         SetupLog[i].ret = "ok" =>
           /\ HasSensor("humidity", SetupLog[i].unique_id)
                <=> "humidity_avg" \in DOMAIN SetupLog[i].datapoints
           /\ HasSensor("temperature", SetupLog[i].unique_id)
                <=> "temperature_avg" \in DOMAIN SetupLog[i].datapoints

EntityFields(e) ==
    <<e.is_on, e.target_humidity, e.last_set_humidity, e.current_humidity,
      e.current_temp>>
Fetches(l) == \E i \in 1..Len(l.calls) : l.calls[i].op = "get_latest_datapoints"
CommandOps == {"async_turn_on", "async_turn_off", "async_set_humidity"}
SinceCommand(t) == t - scenario.commanded.at

\* C22: an async_update started less than 30 seconds after the last
\* successful turn_on, turn_off or set_humidity makes no API call and leaves
\* is_on, target, last-set and current humidity and temperature as they were;
\* one started 30 seconds or more after it fetches the datapoints; a command
\* whose client call returns False changes no field and starts no cooldown.
C22_CooldownAfterCommand ==
    [][ /\ ( /\ last.op = "" /\ last'.op = "async_update"
             /\ scenario.commanded.set /\ SinceCommand(now) < 30 )
           => /\ last'.reqs = <<>> /\ last'.calls = <<>>
              /\ EntityFields(humidifier') = EntityFields(humidifier)
        /\ ( /\ last.op = "" /\ last'.op = "async_update"
             /\ scenario.commanded.set /\ SinceCommand(now) >= 30 )
           => Fetches(last')
        /\ ( last.op = "" /\ last'.op \in CommandOps /\ last'.ret = "False" )
           => humidifier' = humidifier
      ]_vars

C22_Witness ==
    /\ last.op = "async_update"
    /\ scenario.commanded.set
    /\ SinceCommand(last.pre.now) > 0 /\ SinceCommand(last.pre.now) < 30
    /\ last.reqs = <<>>
    /\ humidifier.is_on

\* C23: after a successful set_humidity(h) followed by a successful turn_off,
\* polls reporting the device off with target humidity 0 leave the target and
\* the last-set humidity at h, and a successful turn_on after them leaves the
\* entity on with target humidity h.
C23_TargetRestored ==
    /\ scenario.stage = 2
         => /\ humidifier.target_humidity = scenario.h
            /\ humidifier.last_set_humidity = scenario.h
    /\ scenario.stage = 3
         => /\ humidifier.is_on
            /\ humidifier.target_humidity = scenario.h

C23_Witness ==
    /\ last.op = "async_turn_on"
    /\ scenario.stage = 3
    /\ scenario.polls = MaxPolls
    /\ scenario.h # NewHumidifier.target_humidity
    /\ humidifier.target_humidity = scenario.h

====
